---- MODULE Spec2Model ----
(***************************************************************************)
(* Model of main.go: run() loads the packages, forUntyped() blanks the     *)
(* bodies of the functions used as Create/Update/Delete values in          *)
(* *pluginsdk.Resource declarations, forTyped() replaces the Func values   *)
(* of the Create/Update/Delete methods returning sdk.ResourceFunc, and     *)
(* write() truncates and re-formats every file either pass modified.       *)
(***************************************************************************)
EXTENDS Integers, Sequences, FiniteSets, TLC

\* Number of source files of the service packages (servicePkgs, flattened in
\* the order the nested pkg/file loops visit them).
NumFiles == 2

Files == 1..NumFiles

(***************************************************************************)
(* go/types: types, Underlying and types.Identical.                        *)
(***************************************************************************)

\* The nil types.Type (TypesInfo.TypeOf of an expression it has no entry for,
\* and the zero value of `var crudFuncType types.Type`).
NoType ==
    [kind |-> "nil", name |-> "", ukind |-> "nil", pnames |-> <<>>, params |-> <<>>, results |-> <<>>]

\* *types.Signature; pnames are the parameter names, no part of the type's identity.
MkSig(pnames, params, results) ==
    [kind |-> "sig", name |-> "", ukind |-> "sig", pnames |-> pnames, params |-> params,
     results |-> results]

\* *types.Named over the underlying type `under`.
MkNamed(name, under) == [under EXCEPT !.kind = "named", !.name = name]

MkBasic(name) ==
    [kind |-> "basic", name |-> name, ukind |-> "basic", pnames |-> <<>>, params |-> <<>>,
     results |-> <<>>]

MkStruct == [NoType EXCEPT !.kind = "struct", !.ukind = "struct"]

\* (*types.Named).Underlying()
Underlying(t) == [t EXCEPT !.kind = t.ukind, !.name = ""]

\* The signature of pluginsdk.CreateFunc, and the same written with parameter names.
SigA == MkSig(<<"", "">>, <<"*pluginsdk.ResourceData", "interface{}">>, <<"error">>)
SigAnamed == MkSig(<<"d", "meta">>, <<"*pluginsdk.ResourceData", "interface{}">>, <<"error">>)
\* The signature of sdk.ResourceRunFunc, and the same written with parameter names.
SigB == MkSig(<<"", "">>, <<"context.Context", "sdk.ResourceMetaData">>, <<"error">>)
SigBnamed == MkSig(<<"ctx", "metadata">>, <<"context.Context", "sdk.ResourceMetaData">>, <<"error">>)
\* A lifecycle function of another shape (one more parameter, another result).
SigX == MkSig(<<"ctx", "d", "meta">>,
              <<"context.Context", "*pluginsdk.ResourceData", "interface{}">>,
              <<"diag.Diagnostics">>)
NamedA == MkNamed("pluginsdk.CreateFunc", SigA)
NamedB == MkNamed("sdk.ResourceRunFunc", SigB)
NamedStruct == MkNamed("Resource", MkStruct)
Duration == MkBasic("*time.Duration")
ErrorType == MkBasic("error")

\* types.Identical: the same type value (nil included), or two signatures with
\* the same parameter and result types whatever the parameter names, or the
\* same named type; a named type is never identical to its underlying type.
Identical(x, y) ==
    \/ x = y
    \/ /\ x.kind = "sig" /\ y.kind = "sig"
       /\ x.params = y.params /\ x.results = y.results
    \/ /\ x.kind = "named" /\ y.kind = "named" /\ x.name = y.name
    \/ /\ x.kind = "basic" /\ y.kind = "basic" /\ x.name = y.name

(***************************************************************************)
(* go/ast: nodes.  A KeyValueExpr has kids <<Key, Value>>; ty is the       *)
(* entry TypesInfo holds for the node (NoType when it holds none, as for   *)
(* a node the tool itself created); the text on disk carries no ty.        *)
(***************************************************************************)
Node(kind, name, sig, kids) ==
    [kind |-> kind, name |-> name, sig |-> sig, ty |-> NoType, kids |-> kids]

Ident(name) == Node("ident", name, NoType, <<>>)
Sel(name) == Node("sel", name, NoType, <<>>)
StrLit(name) == Node("basiclit", name, NoType, <<>>)
Call(name) == Node("call", name, NoType, <<>>)
FuncLit(sig, body) == Node("funclit", "", sig, body)
KV(key, value) == Node("kv", "", NoType, <<key, value>>)
Comp(elts) == Node("comp", "", NoType, elts)
Return(results) == Node("return", "", NoType, results)
Stmt(name) == Node("stmt", name, NoType, <<>>)

\* &ast.Ident{Name: "nil"}
NilIdent == Ident("nil")

\* A result type expression of a FuncDecl: [*][x.]sel.
ResultExpr(star, selector, x, sel) == [star |-> star, selector |-> selector, x |-> x, sel |-> sel]

FuncDecl(name, obj, results, sig, body) ==
    [kind |-> "func", name |-> name, obj |-> obj, results |-> results, sig |-> sig, body |-> body]

\* An import or var declaration (*ast.GenDecl).
GenDecl == [kind |-> "gen", name |-> "", obj |-> "", results |-> <<>>, sig |-> NoType, body |-> <<>>]

(***************************************************************************)
(* The semantic model packages.Load builds (type annotations) and the text *)
(* format.Node renders.  Text carries no annotation; loading infers one.   *)
(***************************************************************************)

\* Types of the names declared outside the service packages' function
\* declarations: package-level variables, functions of other packages, calls.
ExternalType(name) ==
    CASE name = "createVar" -> NamedA
      [] name = "runVar" -> NamedB
      [] name = "otherpkg.fooCreate" -> SigAnamed
      [] name = "deleteVar" -> SigAnamed
      [] name = "pluginsdk.DefaultTimeout" -> Duration
      [] OTHER -> MkBasic("string")

DeclsOf(text) == UNION {{text[f].decls[i] : i \in DOMAIN text[f].decls} : f \in DOMAIN text}

\* The type of the object a name refers to: the signature of the function
\* declaration of that name anywhere in the project, else an external's type.
TypeOfName(name, text) ==
    LET ds == {d \in DeclsOf(text) : d.kind = "func" /\ d.obj = name}
    IN  IF ds # {} THEN (CHOOSE d \in ds : TRUE).sig ELSE ExternalType(name)

\* The declared type of the struct field a key names: what an untyped nil
\* written as that field's value is recorded as.
FieldType(key) ==
    IF key.kind # "ident" THEN NoType
    ELSE IF key.name \in {"Create", "Update", "Delete", "Read"}
         THEN MkNamed("pluginsdk." \o key.name \o "Func", SigA)
    ELSE IF key.name = "Func" THEN NamedB
    ELSE NoType

RECURSIVE Annotate(_, _, _)
\* Type-checking one node: TypesInfo's entry for it (ctx is the type the
\* context assigns an untyped nil), then its children.
Annotate(n, ctx, text) ==
    LET t == CASE n.kind = "ident" -> IF n.name = "nil" THEN ctx ELSE TypeOfName(n.name, text)
               [] n.kind \in {"sel", "call", "basiclit"} -> TypeOfName(n.name, text)
               [] n.kind = "funclit" -> n.sig
               [] n.kind = "comp" -> NamedStruct
               [] OTHER -> NoType
        kids == CASE n.kind = "kv" ->
                       <<n.kids[1], Annotate(n.kids[2], FieldType(n.kids[1]), text)>>
                  [] n.kind = "return" ->
                       [i \in DOMAIN n.kids |-> Annotate(n.kids[i], ErrorType, text)]
                  [] OTHER ->
                       [i \in DOMAIN n.kids |-> Annotate(n.kids[i], NoType, text)]
    IN  [n EXCEPT !.ty = t, !.kids = kids]

AnnotateDecl(d, text) ==
    [d EXCEPT !.body = [i \in DOMAIN d.body |-> Annotate(d.body[i], NoType, text)]]

\* packages.Load with LoadSyntax over the files on disk: every file's syntax
\* tree with the whole project's bindings.
LoadAll(text) ==
    [f \in DOMAIN text |-> [i \in DOMAIN text[f].decls |-> AnnotateDecl(text[f].decls[i], text)]]

RECURSIVE Strip(_)
\* printer output of one node: its syntax without the type annotation.
Strip(n) == [n EXCEPT !.ty = NoType, !.kids = [i \in DOMAIN n.kids |-> Strip(n.kids[i])]]

StripDecl(d) == [d EXCEPT !.body = [i \in DOMAIN d.body |-> Strip(d.body[i])]]

\* A file's contents: its declarations, whether the text is in gofmt's
\* canonical layout, and whether the text is whole (not cut short).
FileText(canon, whole, decls) == [canon |-> canon, whole |-> whole, decls |-> decls]

\* format.Node of a file's tree: the canonical text of its declarations.
Format(decls) == FileText(TRUE, TRUE, [i \in DOMAIN decls |-> StripDecl(decls[i])])

(***************************************************************************)
(* The projects the tool is run on.                                        *)
(***************************************************************************)

\* One entry of a package's TypesInfo.Defs: the identifier's name, the kind
\* of types.Object it defines, and that object's type.
Def(name, objkind, type) == [name |-> name, objkind |-> objkind, type |-> type]

\* A package of the load result (present) or the nil *packages.Package that
\* run() is left with when no loaded package has the path.
Package(present, defs) == [present |-> present, defs |-> defs]

RefKinds == {"nopkg", "absent", "func", "alias", "struct", "functype"}

\* The package that should declare the reference type `name` over `sig`:
\* not loaded; without the name; the name a function; the name an alias of
\* the bare signature; the name a named struct; the name a named func type.
RefPackage(kind, name, sig) ==
    LET other == Def("Resource", "TypeName", NamedStruct)
    IN  CASE kind = "nopkg" -> Package(FALSE, {})
          [] kind = "absent" -> Package(TRUE, {other})
          [] kind = "func" -> Package(TRUE, {other, Def(name, "Func", sig)})
          [] kind = "alias" -> Package(TRUE, {other, Def(name, "TypeName", sig)})
          [] kind = "struct" -> Package(TRUE, {other, Def(name, "TypeName", MkNamed(name, MkStruct))})
          [] OTHER -> Package(TRUE, {other, Def(name, "TypeName", MkNamed(name, sig))})

ErrorResult == <<ResultExpr(FALSE, FALSE, "", "error")>>
DescriptorResult == <<ResultExpr(TRUE, TRUE, "pluginsdk", "Resource")>>
OperationResult == <<ResultExpr(FALSE, TRUE, "sdk", "ResourceFunc")>>

\* func name(d *pluginsdk.ResourceData, meta interface{}) error { ... }
Handler(name, sig) == FuncDecl(name, name, ErrorResult, sig, <<Stmt(name \o " body")>>)

\* func name() <results> { return &pluginsdk.Resource{ elts } }
Descriptor(name, results, elts) ==
    FuncDecl(name, name, results, MkSig(<<>>, <<>>, <<"*pluginsdk.Resource">>),
             <<Return(<<Comp(elts)>>)>>)

\* func (r FooResource) name() <results> { return sdk.ResourceFunc{ elts } }
Method(name, results, elts) ==
    FuncDecl(name, "FooResource." \o name, results, MkSig(<<>>, <<>>, <<"sdk.ResourceFunc">>),
             <<Return(<<Comp(elts)>>)>>)

DescBodies ==
    {"single", "three", "nested", "funclit", "selector", "wrongsig", "namedval", "strkey", "litwrong"}

\* The key/value pairs of resourceFoo's descriptor.
DescElts(b) ==
    CASE b = "single" -> <<KV(Ident("Create"), Ident("fooCreate"))>>
      [] b = "three" ->
           <<KV(Ident("Create"), Ident("fooCreate")),
             KV(Ident("Update"), Ident("fooUpdate")),
             KV(Ident("Timeouts"), Comp(<<KV(Ident("Create"), Call("pluginsdk.DefaultTimeout"))>>)),
             KV(Ident("Delete"), Ident("fooDelete"))>>
      [] b = "nested" ->
           <<KV(Ident("Schema"),
                Comp(<<KV(StrLit("rule"),
                          Comp(<<KV(Ident("Elem"),
                                    Comp(<<KV(Ident("Update"), Ident("fooUpdate"))>>))>>))>>)),
             KV(Ident("Create"), Ident("fooCreate")),
             KV(Ident("Delete"), Ident("fooDelete"))>>
      [] b = "funclit" ->
           <<KV(Ident("Create"), FuncLit(SigAnamed, <<Stmt("inline create")>>)),
             KV(Ident("Delete"), Ident("fooDelete"))>>
      [] b = "selector" ->
           <<KV(Ident("Delete"), Ident("fooDelete")),
             KV(Ident("Create"), Sel("otherpkg.fooCreate"))>>
      [] b = "wrongsig" ->
           <<KV(Ident("Create"), Ident("barCreate")),
             KV(Ident("Read"), Ident("fooUpdate"))>>
      [] b = "namedval" ->
           <<KV(Ident("Create"), Ident("createVar")),
             KV(Ident("Update"), Ident("fooUpdate")),
             KV(Ident("Delete"), Ident("deleteVar"))>>
      [] b = "strkey" ->
           <<KV(StrLit("Create"), Ident("fooCreate")),
             KV(Ident("Delete"), Ident("fooDelete"))>>
      [] OTHER ->
           <<KV(Ident("Create"),
                FuncLit(SigX, <<Return(<<Comp(<<KV(Ident("Update"), Ident("fooUpdate"))>>)>>)>>))>>

SecondKinds == {"same", "decoy", "none"}

\* The declarations of the second group: another descriptor naming fooCreate
\* twice, or declarations whose result is not *pluginsdk.Resource.
SecondDecls(k) ==
    CASE k = "same" ->
           <<Descriptor("resourceBar", DescriptorResult,
                        <<KV(Ident("Create"), Ident("fooCreate")),
                          KV(Ident("Update"), Ident("fooCreate"))>>)>>
      [] k = "decoy" ->
           <<Descriptor("bazValue", <<ResultExpr(FALSE, TRUE, "pluginsdk", "Resource")>>,
                        <<KV(Ident("Create"), Ident("fooDelete"))>>),
             Descriptor("bazPair", DescriptorResult \o ErrorResult,
                        <<KV(Ident("Update"), Ident("fooDelete"))>>),
             Descriptor("bazSchema", <<ResultExpr(TRUE, TRUE, "schema", "Resource")>>,
                        <<KV(Ident("Delete"), Ident("fooDelete"))>>),
             Descriptor("bazNone", <<>>,
                        <<KV(Ident("Delete"), Ident("fooDelete"))>>)>>
      [] OTHER -> <<>>

MethodKinds == {"lit", "wrong", "skipped", "nestedlit"}

\* The typed resource's method declarations.
MethodDecls(k) ==
    CASE k = "lit" ->
           <<Method("Create", OperationResult,
                    <<KV(Ident("Func"), FuncLit(SigBnamed, <<Stmt("typed create")>>)),
                      KV(Ident("Timeout"), Call("pluginsdk.DefaultTimeout"))>>)>>
      [] k = "wrong" ->
           <<Method("Update", OperationResult,
                    <<KV(Ident("Func"), Ident("runVar")),
                      KV(Ident("Extra"), Comp(<<KV(Ident("Func"), FuncLit(SigX, <<>>))>>))>>)>>
      [] k = "skipped" ->
           <<Method("Read", OperationResult,
                    <<KV(Ident("Func"), FuncLit(SigBnamed, <<Stmt("typed read")>>))>>),
             Method("Create", <<ResultExpr(TRUE, TRUE, "sdk", "ResourceFunc")>>,
                    <<KV(Ident("Func"), FuncLit(SigBnamed, <<Stmt("typed create")>>))>>),
             Method("Delete", <<ResultExpr(FALSE, TRUE, "sdk", "Resource")>>,
                    <<KV(Ident("Func"), FuncLit(SigBnamed, <<Stmt("typed delete")>>))>>)>>
      [] OTHER ->
           <<Method("Delete", OperationResult,
                    <<KV(Ident("Func"),
                         FuncLit(SigBnamed,
                                 <<Return(<<Comp(<<KV(Ident("Func"), FuncLit(SigBnamed, <<>>))>>)>>)>>)),
                      KV(Ident("Extra"),
                         Comp(<<KV(Ident("Func"), FuncLit(SigB, <<Stmt("nested")>>))>>))>>)>>

\* A project: resourceFoo with body b, fooUpdate, fooDelete and barCreate in
\* the first file, fooCreate in file homeC, the second group in the last
\* file, the typed resource in file mfile; the last file canonical or not.
ProjectText(b, homeC, second, mfile, mkind, canon) ==
    [f \in Files |->
        FileText(canon \/ f # NumFiles, TRUE,
            <<GenDecl>>
            \o (IF f = 1
                THEN <<Descriptor("resourceFoo", DescriptorResult, DescElts(b)),
                       Handler("fooUpdate", SigAnamed), Handler("fooDelete", SigA),
                       Handler("barCreate", SigX)>>
                ELSE <<>>)
            \o (IF f = homeC THEN <<Handler("fooCreate", SigAnamed)>> ELSE <<>>)
            \o (IF f = NumFiles THEN SecondDecls(second) ELSE <<>>)
            \o (IF f = mfile THEN MethodDecls(mkind) ELSE <<>>))]

Projects ==
    {ProjectText(b, h, s, m, k, c) :
        b \in DescBodies, h \in Files, s \in SecondKinds, m \in Files, k \in MethodKinds,
        c \in BOOLEAN}

\* The projects run with the reference packages in every condition.
RefProjects ==
    {ProjectText(b, h, "none", 1, "lit", TRUE) : b \in {"single", "wrongsig"}, h \in Files}

(***************************************************************************)
(* The two passes' pure parts.                                             *)
(***************************************************************************)

\* The loop over TypesInfo.Defs that sets crudFuncType: nil when no
\* identifier has the name; a panic when the package pointer is nil or one
\* of the three type assertions fails.
ResolveRef(pkg, refName) ==
    LET named == {d \in pkg.defs : d.name = refName}
        good == {d \in named : d.objkind = "TypeName" /\ d.type.kind = "named"
                                 /\ d.type.ukind = "sig"}
    IN  [panicked |-> ~pkg.present \/ named # good,
         ty |-> IF good # {} THEN Underlying((CHOOSE d \in good : TRUE).type) ELSE NoType]

\* forUntyped's checks on a declaration: a function whose one result is
\* written *pluginsdk.Resource.
IsDescriptor(d) ==
    /\ d.kind = "func"
    /\ Len(d.results) = 1
    /\ d.results[1].star
    /\ d.results[1].selector
    /\ d.results[1].x = "pluginsdk"
    /\ d.results[1].sel = "Resource"

\* forTyped's checks on a declaration: a function named Create, Update or
\* Delete whose one result is written sdk.ResourceFunc.
IsOperation(d) ==
    /\ d.kind = "func"
    /\ d.name \in {"Create", "Update", "Delete"}
    /\ Len(d.results) = 1
    /\ ~d.results[1].star
    /\ d.results[1].selector
    /\ d.results[1].x = "sdk"
    /\ d.results[1].sel = "ResourceFunc"

\* MatchesA without the types.Identical check: a match by key name alone.
MatchesAKeyOnly(n, ref) ==
    /\ n.kind = "kv"
    /\ n.kids[1].kind = "ident"
    /\ n.kids[1].name \in {"Create", "Update", "Delete"}

\* forUntyped's ast.Inspect callback reaches line 116 on n.
MatchesA(n, ref) ==
    /\ n.kind = "kv"
    /\ n.kids[1].kind = "ident"
    /\ n.kids[1].name \in {"Create", "Update", "Delete"}
    /\ Identical(n.kids[2].ty, ref)

\* forTyped's ast.Inspect callback reaches line 209 on n.
MatchesB(n, ref) ==
    /\ n.kind = "kv"
    /\ n.kids[1].kind = "ident"
    /\ n.kids[1].name = "Func"
    /\ Identical(n.kids[2].ty, ref)

RECURSIVE WalkAFirstMatch(_, _, _)
\* WalkA with the walk ended at the first match instead of going on with the
\* nodes after the matched pair.
WalkAFirstMatch(todo, ref, acc) ==
    IF todo = <<>> \/ acc.panicked THEN acc
    ELSE LET n == Head(todo) IN
         IF MatchesA(n, ref)
         THEN IF n.kids[2].kind = "ident"
              THEN [acc EXCEPT !.objs = @ \cup {n.kids[2].name}]
              ELSE [acc EXCEPT !.panicked = TRUE]
         ELSE WalkAFirstMatch(n.kids \o Tail(todo), ref, acc)

RECURSIVE WalkA(_, _, _)
\* ast.Inspect with forUntyped's callback over the nodes still to visit, in
\* depth-first order: a match records the object its value identifier uses
\* and skips the pair's children; the assertion kvexpr.Value.(*ast.Ident)
\* panics on any other value.
WalkA(todo, ref, acc) ==
    IF todo = <<>> \/ acc.panicked THEN acc
    ELSE LET n == Head(todo) IN
         IF MatchesA(n, ref)
         THEN IF n.kids[2].kind = "ident"
              THEN WalkA(Tail(todo), ref, [acc EXCEPT !.objs = @ \cup {n.kids[2].name}])
              ELSE [acc EXCEPT !.panicked = TRUE]
         ELSE WalkA(n.kids \o Tail(todo), ref, acc)

RECURSIVE MatchDecls(_, _, _)
\* forUntyped's first loop over one file's declarations.
MatchDecls(decls, ref, acc) ==
    IF decls = <<>> \/ acc.panicked THEN acc
    ELSE MatchDecls(Tail(decls), ref,
                    IF IsDescriptor(Head(decls)) THEN WalkA(Head(decls).body, ref, acc) ELSE acc)

\* IsCudDef with the map lookup's test inverted.
IsCudDefInverted(d, objs) == d.kind = "func" /\ d.obj \notin objs

\* forUntyped's second loop reaches line 135 on d.
IsCudDef(d, objs) == d.kind = "func" /\ d.obj \in objs

\* fdecl.Body.List = []ast.Stmt{&ast.ReturnStmt{Results: {&ast.Ident{Name: "nil"}}}}
BlankBody(d) == [d EXCEPT !.body = <<Return(<<NilIdent>>)>>]

RECURSIVE SumSeq(_)
SumSeq(s) == IF s = <<>> THEN 0 ELSE Head(s) + SumSeq(Tail(s))

RECURSIVE InspectB(_, _)
\* ast.Inspect with forTyped's callback from node n: the node with every
\* matched pair's value replaced by the nil identifier (a matched pair's
\* children are not visited), and how many pairs matched.
InspectB(n, ref) ==
    IF MatchesB(n, ref)
    THEN [node |-> [n EXCEPT !.kids = <<n.kids[1], NilIdent>>], hits |-> 1]
    ELSE LET rs == [i \in DOMAIN n.kids |-> InspectB(n.kids[i], ref)]
         IN  [node |-> [n EXCEPT !.kids = [i \in DOMAIN n.kids |-> rs[i].node]],
              hits |-> SumSeq([i \in DOMAIN n.kids |-> rs[i].hits])]

\* forTyped's loop body on one declaration.
TypedDecl(d, ref) ==
    IF IsOperation(d)
    THEN LET rs == [i \in DOMAIN d.body |-> InspectB(d.body[i], ref)]
         IN  [decl |-> [d EXCEPT !.body = [i \in DOMAIN d.body |-> rs[i].node]],
              hits |-> SumSeq([i \in DOMAIN d.body |-> rs[i].hits])]
    ELSE [decl |-> d, hits |-> 0]

\* write(): the open fails and the file is as it was; or the file is opened
\* with O_TRUNC and format.Node fails, leaving no text or a first part of
\* it; or the file holds the formatted tree.
Write(decls, onDisk) ==
    LET new == Format(decls)
    IN  {[err |-> TRUE, text |-> onDisk],
         [err |-> TRUE, text |-> FileText(TRUE, FALSE, <<>>)],
         [err |-> TRUE, text |-> FileText(TRUE, FALSE, SubSeq(new.decls, 1, 1))],
         [err |-> FALSE, text |-> new]}

(***************************************************************************)
(* The state of a run, and of the files it works on.                       *)
(***************************************************************************)
VARIABLES
    pluginsdkPkg,   \* run's pluginsdkPkg: the loaded pluginsdk package or nil
    sdkPkg,         \* run's sdkPkg: the loaded sdk package or nil
    disk,           \* the service packages' files on disk
    diskStart,      \* the files as they were when the current run started
    tree,           \* the loaded syntax trees (pkg.Syntax), per file
    loaded,         \* the syntax trees as packages.Load returned them in this run
    crudUntyped,    \* forUntyped's crudFuncType
    crudTyped,      \* forTyped's crudFuncType
    cudObjs,        \* forUntyped's cudObjs
    pc,             \* where the run is
    idx,            \* the file the current loop is at
    modified,       \* the value `modified` had when the last file's loop body ended
    outcome,        \* "running", or how run() ended: "ok", "error", "panic"
    failedAt,       \* the step an error or panic came from
    written,        \* the files passed to write() in this run, in order
    mutsIn,         \* per file, the mutations applied to its tree in this run
    blanked,        \* the objects whose bodies this run replaced, in order
    second          \* this is the run on the first run's output

vars == <<pluginsdkPkg, sdkPkg, disk, diskStart, tree, loaded, crudUntyped, crudTyped, cudObjs, pc, idx,
          modified, outcome, failedAt, written, mutsIn, blanked, second>>

NoTrees == [f \in Files |-> <<>>]

Init ==
    /\ \/ /\ disk \in Projects
          /\ pluginsdkPkg = RefPackage("functype", "CreateFunc", SigA)
          /\ sdkPkg = RefPackage("functype", "ResourceRunFunc", SigB)
       \/ /\ disk \in RefProjects
          /\ \E ka \in RefKinds, kb \in RefKinds :
                /\ pluginsdkPkg = RefPackage(ka, "CreateFunc", SigA)
                /\ sdkPkg = RefPackage(kb, "ResourceRunFunc", SigB)
    /\ diskStart = disk
    /\ tree = NoTrees
    /\ loaded = NoTrees
    /\ crudUntyped = NoType
    /\ crudTyped = NoType
    /\ cudObjs = {}
    /\ pc = "load"
    /\ idx = 1
    /\ modified = FALSE
    /\ outcome = "running"
    /\ failedAt = ""
    /\ written = <<>>
    /\ mutsIn = [f \in Files |-> 0]
    /\ blanked = <<>>
    /\ second = FALSE

\* InitialModified with `modified` declared outside the loop over the files:
\* a file starts with the value the file before it ended with.
CarriedModified == modified

\* `var modified bool` at the top of a file's loop body.
InitialModified == FALSE

\* run() ends with an error returned or a panic raised at step `at`.
Fail(how, at) ==
    /\ pc' = "done"
    /\ outcome' = how
    /\ failedAt' = at

\* The loop over the files moves on, or ends and the run goes to `next`.
Advance(next) ==
    /\ IF idx = NumFiles
       THEN pc' = next /\ idx' = 1 /\ outcome' = (IF next = "done" THEN "ok" ELSE outcome)
       ELSE pc' = pc /\ idx' = idx + 1 /\ outcome' = outcome
    /\ failedAt' = failedAt

\* `if modified { if err := write(file, pkg.Fset); err != nil { return err } }`
WriteIfModified(mod, decls, at, next) ==
    IF mod
    THEN \E w \in Write(decls, disk[idx]) :
            /\ disk' = [disk EXCEPT ![idx] = w.text]
            /\ written' = Append(written, idx)
            /\ IF w.err THEN Fail("error", at) /\ idx' = idx ELSE Advance(next)
    ELSE /\ disk' = disk
         /\ written' = written
         /\ Advance(next)

\* run(), to the calls of the two passes: packages.Load may fail or report
\* errors; else the packages are sorted into pluginsdkPkg, sdkPkg, servicePkgs.
Load ==
    /\ pc = "load"
    /\ \E ok \in BOOLEAN :
          IF ok
          THEN /\ tree' = LoadAll(disk)
               /\ loaded' = tree'
               /\ pc' = "resolveUntyped"
               /\ UNCHANGED <<outcome, failedAt>>
          ELSE /\ UNCHANGED <<tree, loaded>>
               /\ Fail("error", "load")
    /\ UNCHANGED <<pluginsdkPkg, sdkPkg, disk, diskStart, crudUntyped, crudTyped, cudObjs, idx,
                   modified, written, mutsIn, blanked, second>>

\* forUntyped: the reference signature from pluginsdk's CreateFunc.
ForUntypedResolve ==
    /\ pc = "resolveUntyped"
    /\ LET r == ResolveRef(pluginsdkPkg, "CreateFunc") IN
          IF r.panicked
          THEN Fail("panic", "resolveUntyped") /\ crudUntyped' = crudUntyped
          ELSE /\ crudUntyped' = r.ty
               /\ pc' = "match"
               /\ UNCHANGED <<outcome, failedAt>>
    /\ UNCHANGED <<pluginsdkPkg, sdkPkg, disk, diskStart, tree, loaded, crudTyped, cudObjs, idx, modified,
                   written, mutsIn, blanked, second>>

\* forUntyped: the first loop's body for one file, collecting cudObjs.
ForUntypedMatch ==
    /\ pc = "match"
    /\ LET acc == MatchDecls(tree[idx], crudUntyped, [objs |-> cudObjs, panicked |-> FALSE]) IN
          /\ cudObjs' = acc.objs
          /\ IF acc.panicked
             THEN Fail("panic", "match") /\ idx' = idx
             ELSE Advance("rewrite")
    /\ UNCHANGED <<pluginsdkPkg, sdkPkg, disk, diskStart, tree, loaded, crudUntyped, crudTyped, modified,
                   written, mutsIn, blanked, second>>

\* forUntyped: the second loop's body for one file, blanking the collected
\* functions' bodies and writing the file when one was blanked.
ForUntypedRewrite ==
    /\ pc = "rewrite"
    /\ LET decls == tree[idx]
           new == [i \in DOMAIN decls |->
                      IF IsCudDef(decls[i], cudObjs) THEN BlankBody(decls[i]) ELSE decls[i]]
           hit == SelectSeq(decls, LAMBDA d : IsCudDef(d, cudObjs))
           mod == InitialModified \/ hit # <<>>
       IN  /\ tree' = [tree EXCEPT ![idx] = new]
           /\ modified' = mod
           /\ blanked' = blanked \o [i \in DOMAIN hit |-> hit[i].obj]
           /\ mutsIn' = [mutsIn EXCEPT ![idx] = @ + Len(hit)]
           /\ WriteIfModified(mod, new, "writeUntyped", "resolveTyped")
    /\ UNCHANGED <<pluginsdkPkg, sdkPkg, diskStart, loaded, crudUntyped, crudTyped, cudObjs, second>>

\* forTyped: the reference signature from sdk's ResourceRunFunc.
ForTypedResolve ==
    /\ pc = "resolveTyped"
    /\ LET r == ResolveRef(sdkPkg, "ResourceRunFunc") IN
          IF r.panicked
          THEN Fail("panic", "resolveTyped") /\ crudTyped' = crudTyped
          ELSE /\ crudTyped' = r.ty
               /\ pc' = "typed"
               /\ UNCHANGED <<outcome, failedAt>>
    /\ UNCHANGED <<pluginsdkPkg, sdkPkg, disk, diskStart, tree, loaded, crudUntyped, cudObjs, idx, modified,
                   written, mutsIn, blanked, second>>

\* forTyped: the loop's body for one file, replacing the matched Func values
\* and writing the file when one was replaced.
ForTypedFile ==
    /\ pc = "typed"
    /\ LET decls == tree[idx]
           rs == [i \in DOMAIN decls |-> TypedDecl(decls[i], crudTyped)]
           new == [i \in DOMAIN decls |-> rs[i].decl]
           hits == SumSeq([i \in DOMAIN decls |-> rs[i].hits])
           mod == InitialModified \/ hits > 0
       IN  /\ tree' = [tree EXCEPT ![idx] = new]
           /\ modified' = mod
           /\ mutsIn' = [mutsIn EXCEPT ![idx] = @ + hits]
           /\ WriteIfModified(mod, new, "writeTyped", "done")
    /\ UNCHANGED <<pluginsdkPkg, sdkPkg, diskStart, loaded, crudUntyped, crudTyped, cudObjs, blanked,
                   second>>

\* The tool is run again on the project a successful run left on disk.
Rerun ==
    /\ pc = "done"
    /\ outcome = "ok"
    /\ ~second
    /\ second' = TRUE
    /\ diskStart' = disk
    /\ tree' = NoTrees
    /\ loaded' = NoTrees
    /\ crudUntyped' = NoType
    /\ crudTyped' = NoType
    /\ cudObjs' = {}
    /\ pc' = "load"
    /\ idx' = 1
    /\ modified' = FALSE
    /\ outcome' = "running"
    /\ failedAt' = ""
    /\ written' = <<>>
    /\ mutsIn' = [f \in Files |-> 0]
    /\ blanked' = <<>>
    /\ UNCHANGED <<pluginsdkPkg, sdkPkg, disk>>

Next ==
    \/ Load
    \/ ForUntypedResolve
    \/ ForUntypedMatch
    \/ ForUntypedRewrite
    \/ ForTypedResolve
    \/ ForTypedFile
    \/ Rerun

Spec == Init /\ [][Next]_vars

(***************************************************************************)
(* What the properties speak of.                                           *)
(***************************************************************************)

\* The trees the current run loaded, before any pass touched them.
Loaded == loaded

\* The reference signatures the two packages give (nil when they give none).
RefA == ResolveRef(pluginsdkPkg, "CreateFunc").ty
RefB == ResolveRef(sdkPkg, "ResourceRunFunc").ty

RECURSIVE NodesOf(_)
NodesOf(n) == {n} \cup UNION {NodesOf(n.kids[i]) : i \in DOMAIN n.kids}

NodesOfBody(body) == UNION {NodesOf(body[i]) : i \in DOMAIN body}

\* The loaded declarations, each with its place.
LoadedPlaces == UNION {{<<f, i>> : i \in DOMAIN Loaded[f]} : f \in Files}

\* The run loaded its trees.
TreesLoaded == pc # "load" /\ failedAt # "load"

\* forUntyped's first loop has been through file f.
PastMatch(f) ==
    \/ pc = "match" /\ idx > f
    \/ pc \in {"rewrite", "resolveTyped", "typed"}
    \/ pc = "done" /\ failedAt \in {"", "writeUntyped", "resolveTyped", "writeTyped"}

\* forUntyped returned nil.
UntypedDone ==
    \/ pc \in {"resolveTyped", "typed"}
    \/ pc = "done" /\ failedAt \in {"", "resolveTyped", "writeTyped"}

Occurrences(s, x) == Cardinality({i \in DOMAIN s : s[i] = x})

\* A use site: a lifecycle pair of a descriptor whose value is an identifier
\* of the reference signature.
IsUseSite(n) == MatchesA(n, RefA) /\ n.kids[2].kind = "ident"

RECURSIVE CountUses(_, _)
\* How many use sites under n name the object o.
CountUses(n, o) ==
    (IF IsUseSite(n) /\ n.kids[2].name = o THEN 1 ELSE 0)
    + SumSeq([i \in DOMAIN n.kids |-> CountUses(n.kids[i], o)])

UsesIn(d, o) ==
    IF IsDescriptor(d) THEN SumSeq([i \in DOMAIN d.body |-> CountUses(d.body[i], o)]) ELSE 0

UseCount(o) == SumSeq([f \in Files |-> SumSeq([i \in DOMAIN Loaded[f] |-> UsesIn(Loaded[f][i], o)])])

\* The functions declared in the service packages.
DeclaredFuncs == {Loaded[p[1]][p[2]].obj : p \in {q \in LoadedPlaces : Loaded[q[1]][q[2]].kind = "func"}}

\* The declared functions some use site names.
UsedFuncs == {o \in DeclaredFuncs : UseCount(o) >= 1}

\* The declaration of object o in the trees t.
DeclOf(o, t) ==
    LET p == CHOOSE q \in LoadedPlaces : Loaded[q[1]][q[2]].obj = o IN t[p[1]][p[2]]

BlankStmts == <<Return(<<NilIdent>>)>>

\* File f holds use sites (of the functions in `used`, all that are used)
\* and nothing either pass rewrites.
OnlyUseSites(f, used) ==
    /\ \E i \in DOMAIN Loaded[f], o \in used : UsesIn(Loaded[f][i], o) > 0
    /\ \A i \in DOMAIN Loaded[f] :
          /\ ~IsCudDef(Loaded[f][i], used)
          /\ TypedDecl(Loaded[f][i], RefB).hits = 0

(***************************************************************************)
(* Properties.                                                             *)
(***************************************************************************)

\* C1: Idempotence: a run on the output of a completed run applies no
\* mutation (no body replaced, no Func value replaced) and writes no file.
C1_SecondRunAppliesNothing ==
    (second /\ pc = "done" /\ outcome = "ok")
        => /\ \A f \in Files : mutsIn[f] = 0
           /\ blanked = <<>>
           /\ written = <<>>

\* C2: in one run every file is passed to write() at most once, a file with
\* a blanked convention-A definition and a replaced convention-B value too.
C2_WrittenAtMostOnce == \A f \in Files : Occurrences(written, f) <= 1

\* The pairs of a descriptor whose value is a function literal of the
\* reference signature.
InlineSites(d) ==
    IF IsDescriptor(d)
    THEN {n \in NodesOfBody(d.body) : MatchesA(n, RefA) /\ n.kids[2].kind = "funclit"}
    ELSE {}

\* C4: a descriptor with an inline function literal of the convention-A
\* signature as a Create, Update or Delete value: the run completes normally
\* and the literal is replaced in place by the nil identifier.
C4_InlineLiteralReplaced ==
    (pc = "done" /\ outcome # "error")
        => \A p \in LoadedPlaces :
              InlineSites(Loaded[p[1]][p[2]]) # {}
                  => /\ outcome = "ok"
                     /\ InlineSites(tree[p[1]][p[2]]) = {}

\* The package declares `name` as a named function type.
DeclaresFuncType(pkg, name) ==
    \E d \in pkg.defs : /\ d.name = name /\ d.objkind = "TypeName"
                        /\ d.type.kind = "named" /\ d.type.ukind = "sig"

\* C5: when CreateFunc or ResourceRunFunc is absent from the loaded packages
\* or is no named function type, the run ends in failure.
C5_MissingReferenceFails ==
    (pc = "done" /\ (~DeclaresFuncType(pluginsdkPkg, "CreateFunc")
                     \/ ~DeclaresFuncType(sdkPkg, "ResourceRunFunc")))
        => outcome # "ok"

\* The objects every use site of the loaded project names.
GoalObjs == UsedFuncs

\* The trees with every eligible site rewritten.
Goal ==
    [f \in Files |->
        [i \in DOMAIN Loaded[f] |->
            TypedDecl(IF IsCudDef(Loaded[f][i], GoalObjs) THEN BlankBody(Loaded[f][i])
                      ELSE Loaded[f][i], RefB).decl]]

\* C6: when the run has ended, every file either has all its eligible sites
\* rewritten and holds the serialized new text, or holds what it held before
\* the run and the run failed (a file with nothing to rewrite is as before).
C6_WriteAtomicity ==
    (pc = "done" /\ TreesLoaded)
        => \A f \in Files :
              \/ tree[f] = Goal[f] /\ Goal[f] # Loaded[f] /\ disk[f] = Format(Goal[f])
              \/ Goal[f] = Loaded[f] /\ outcome = "ok" /\ disk[f] = diskStart[f]
              \/ outcome # "ok" /\ disk[f] = diskStart[f]

\* C10: a failure to resolve either reference signature ends the run with no
\* tree mutated and no file written.
C10_ResolveBeforeAnyWork ==
    (pc = "done" /\ failedAt \in {"resolveUntyped", "resolveTyped"})
        => /\ written = <<>>
           /\ disk = diskStart
           /\ \A f \in Files : mutsIn[f] = 0

\* The declared functions two or more use sites name.
SharedFuncs == {o \in DeclaredFuncs : UseCount(o) >= 2}

\* C3: a function named by two or more use sites has its body replaced at
\* most once in the run, exactly once (by `return nil`) when forUntyped has
\* returned nil; every declaration holding a use site of it is as loaded;
\* a file holding only use sites is neither mutated nor written.
C3_DefinitionDeduplication ==
    TreesLoaded
        => LET used == UsedFuncs
               shared == {o \in used : UseCount(o) >= 2}
           IN  \A o \in shared :
                  /\ Occurrences(blanked, o) <= 1
                  /\ UntypedDone => /\ Occurrences(blanked, o) = 1
                                    /\ DeclOf(o, tree).body = BlankStmts
                  /\ \A p \in LoadedPlaces :
                        UsesIn(Loaded[p[1]][p[2]], o) > 0
                            => tree[p[1]][p[2]] = Loaded[p[1]][p[2]]
                  /\ \A f \in Files :
                        OnlyUseSites(f, used)
                            => /\ Occurrences(written, f) = 0
                               /\ tree[f] = Loaded[f]
                               /\ disk[f] = diskStart[f]

\* C3 witness: the run completed with a function named from two files'
\* descriptors blanked once, and a file holding only use sites unwritten.
C3_Witness ==
    /\ pc = "done" /\ outcome = "ok" /\ ~second
    /\ \E o \in SharedFuncs :
          /\ Occurrences(blanked, o) = 1
          /\ DeclOf(o, Loaded).body # BlankStmts
          /\ DeclOf(o, tree).body = BlankStmts
          /\ Cardinality({p[1] : p \in {q \in LoadedPlaces : UsesIn(Loaded[q[1]][q[2]], o) > 0}}) >= 2
    /\ \E f \in Files : OnlyUseSites(f, UsedFuncs) /\ Occurrences(written, f) = 0

\* C7: a file in which the run applied no mutation is never passed to
\* write() and stays as it was on disk.
C7_UntouchedFile ==
    \A f \in Files :
        mutsIn[f] = 0 => /\ Occurrences(written, f) = 0
                         /\ disk[f] = diskStart[f]

\* C7 witness: the run completed having written a file in both passes, with
\* a later file that holds function declarations but no mutation, unwritten
\* and still in the non-canonical layout it had.
C7_Witness ==
    /\ pc = "done" /\ outcome = "ok"
    /\ \E f \in Files, g \in Files :
          /\ f < g
          /\ Occurrences(written, f) = 2
          /\ mutsIn[g] = 0 /\ Occurrences(written, g) = 0
          /\ Len(tree[g]) > 1
          /\ ~disk[g].canon

\* C8: every use site of a descriptor, wherever it lies in the body, is in
\* cudObjs once the first loop has been through the descriptor's file, and
\* the function it names has the body `return nil` once forUntyped has
\* returned nil.
C8_Exhaustive ==
    TreesLoaded
        => \A p \in LoadedPlaces :
              IsDescriptor(Loaded[p[1]][p[2]])
                  => \A n \in NodesOfBody(Loaded[p[1]][p[2]].body) :
                        (IsUseSite(n) /\ n.kids[2].name \in DeclaredFuncs)
                            => /\ PastMatch(p[1]) => n.kids[2].name \in cudObjs
                               /\ UntypedDone => DeclOf(n.kids[2].name, tree).body = BlankStmts

\* The lifecycle keys whose use sites the descriptor d holds.
KeysUsed(d) == {n.kids[1].name : n \in {m \in NodesOfBody(d.body) : IsUseSite(m)}}
FuncsUsed(d) == {n.kids[2].name : n \in {m \in NodesOfBody(d.body) : IsUseSite(m)}}

\* C8 witness: a descriptor with Create, Update and Delete use sites of
\* three functions, one of them inside a nested composite; all three are in
\* cudObjs and all three bodies are blanked.
C8_Witness ==
    /\ pc = "done" /\ outcome = "ok" /\ ~second
    /\ \E p \in LoadedPlaces :
          LET d == Loaded[p[1]][p[2]] IN
          /\ IsDescriptor(d)
          /\ KeysUsed(d) = {"Create", "Update", "Delete"}
          /\ Cardinality(FuncsUsed(d)) = 3
          /\ \E i \in DOMAIN d.body[1].kids[1].kids :
                ~IsUseSite(d.body[1].kids[1].kids[i])
          /\ FuncsUsed(d) \subseteq cudObjs
          /\ \A o \in FuncsUsed(d) :
                DeclOf(o, tree).body = BlankStmts /\ Occurrences(blanked, o) = 1

RECURSIVE Kept(_, _, _, _)
\* Every pair under n0 with a key in `keys` whose value's type is not
\* identical to ref still has, in the tree n, the value it was loaded with.
Kept(n0, n, keys, ref) ==
    /\ (/\ n0.kind = "kv" /\ n0.kids[1].kind = "ident" /\ n0.kids[1].name \in keys
        /\ ~Identical(n0.kids[2].ty, ref))
           => /\ n.kind = "kv"
              /\ n.kids[2].kind = n0.kids[2].kind
              /\ n.kids[2].name = n0.kids[2].name
              /\ n.kids[2].sig = n0.kids[2].sig
    /\ Len(n.kids) = Len(n0.kids)
           => \A i \in DOMAIN n0.kids : Kept(n0.kids[i], n.kids[i], keys, ref)

KeptIn(d0, d, keys, ref) ==
    Len(d.body) = Len(d0.body) => \A i \in DOMAIN d0.body : Kept(d0.body[i], d.body[i], keys, ref)

\* C9: a pair with a lifecycle key whose value's type is not identical to
\* the reference signature is never matched: no object of another type is
\* in cudObjs or has its body replaced, and the pair's value stays.
C9_StructuralEquality ==
    TreesLoaded
        => /\ \A o \in cudObjs : Identical(TypeOfName(o, diskStart), crudUntyped)
           /\ \A i \in DOMAIN blanked : Identical(TypeOfName(blanked[i], diskStart), crudUntyped)
           /\ \A p \in LoadedPlaces :
                 /\ KeptIn(Loaded[p[1]][p[2]], tree[p[1]][p[2]], {"Create", "Update", "Delete"}, RefA)
                 /\ KeptIn(Loaded[p[1]][p[2]], tree[p[1]][p[2]], {"Func"}, RefB)

\* The pairs of d with a key in `keys` and a value of a type other than ref.
Mismatched(d, keys, ref) ==
    {n \in NodesOfBody(d.body) :
        /\ n.kind = "kv" /\ n.kids[1].kind = "ident" /\ n.kids[1].name \in keys
        /\ ~Identical(n.kids[2].ty, ref)}

\* C9 witness: the run completed and applied mutations on a project with a
\* descriptor whose Create value is a declared function of another
\* signature and an operation method whose Func value is of a named type.
C9_Witness ==
    /\ pc = "done" /\ outcome = "ok"
    /\ cudObjs # {}
    /\ \E f \in Files : mutsIn[f] > 0
    /\ \E p \in LoadedPlaces :
          /\ IsDescriptor(Loaded[p[1]][p[2]])
          /\ \E n \in Mismatched(Loaded[p[1]][p[2]], {"Create", "Update", "Delete"}, RefA) :
                n.kids[2].name \in DeclaredFuncs \ cudObjs
    /\ \E p \in LoadedPlaces :
          /\ IsOperation(Loaded[p[1]][p[2]])
          /\ \E n \in Mismatched(tree[p[1]][p[2]], {"Func"}, RefB) : n.kids[2].kind = "ident"
          /\ \E n \in Mismatched(tree[p[1]][p[2]], {"Func"}, RefB) : n.kids[2].kind = "funclit"

====
